---- MODULE Spec2Model ----
(***************************************************************************)
(* MazoMate interview question generator (src/app.py).                     *)
(*                                                                         *)
(* A text is a sequence of one-character strings.  The pipeline of main()  *)
(* is modelled step by step: the button click, generate_interview_questions*)
(* (chat set-up, prompt, service call), the guard on the generated content,*)
(* the line-pairing loop, export_to_excel and export_to_word.              *)
(***************************************************************************)
EXTENDS Integers, Sequences, FiniteSets, TLC

VARIABLES
    domain,             \* st.text_input        (app.py:112)
    experience_level,   \* st.number_input      (app.py:113)
    complexity,         \* st.radio             (app.py:114)
    num_questions,      \* st.number_input      (app.py:115)
    pc,                 \* position of main()
    prompt,             \* the prompt handed to the service (app.py:38)
    response,           \* outcome of the service call (app.py:45)
    generated_content,  \* app.py:120
    qa_pairs,           \* app.py:128
    excel_file,         \* app.py:136
    word_file,          \* app.py:146
    encoder,            \* outcome of each encoder (ExcelWriter, doc.save)
    ui,                 \* st.info / st.success / st.write / st.error calls
    text_area,          \* st.text_area         (app.py:125)
    downloads,          \* st.download_button calls
    hist                \* the pipeline steps executed so far, in order

vars == <<domain, experience_level, complexity, num_questions, pc, prompt,
          response, generated_content, qa_pairs, excel_file, word_file,
          encoder, ui, text_area, downloads, hist>>

-----------------------------------------------------------------------------
(* Bounds and input sets *)

MaxLen == 4
MaxRecords == 2

NL == "\n"
Whitespace == {" ", NL}
Char == {"a", "b"} \cup Whitespace

RECURSIVE SeqsUpTo(_, _)
SeqsUpTo(S, n) ==
    IF n = 0 THEN {<<>>}
    ELSE LET shorter == SeqsUpTo(S, n - 1)
         IN  shorter \cup {Append(s, c) : s \in shorter, c \in S}

Texts == SeqsUpTo(Char, MaxLen)

Domains == {"", "Python"}
Years == {1, 50}
Complexities == {"Basic", "Intermediate", "Advanced"}
Counts == {1, 100}

\* record fields of the renderers' unit checks: empty, plain, and with
\* surrounding whitespace
Fields == {<<>>, <<"a">>, <<" ", "b">>}
QARecords == [Question : Fields, Answer : Fields]
RecordSeqs == SeqsUpTo(QARecords, MaxRecords)

-----------------------------------------------------------------------------
(* Optional values: None, or a present object *)

None == <<>>
Some(x) == <<x>>
truthy(o) == o # None

-----------------------------------------------------------------------------
(* str.strip and str.split *)

RECURSIVE lstrip(_)
lstrip(s) ==
    IF s # <<>> /\ Head(s) \in Whitespace THEN lstrip(Tail(s)) ELSE s

RECURSIVE rstrip(_)
rstrip(s) ==
    IF s # <<>> /\ s[Len(s)] \in Whitespace
    THEN rstrip(SubSeq(s, 1, Len(s) - 1))
    ELSE s

strip(s) == rstrip(lstrip(s))

RECURSIVE split(_, _)
split(s, sep) ==
    IF \E i \in 1..Len(s) : s[i] = sep
    THEN LET i == CHOOSE j \in 1..Len(s) :
                     /\ s[j] = sep
                     /\ \A k \in 1..(j - 1) : s[k] # sep
         IN  <<SubSeq(s, 1, i - 1)>> \o split(SubSeq(s, i + 1, Len(s)), sep)
    ELSE <<s>>

-----------------------------------------------------------------------------
(* The line-pairing loop of main() *)

\* range(0, n, 2)
range2(n) == [k \in 1..((n + 1) \div 2) |-> 2 * (k - 1)]

\* the loop with an off-by-one bound, range(0, len(lines) - 1, 2)
parse_off_by_one(generated_content_) ==
    LET lines == split(generated_content_, NL)
        idx == range2(Len(lines) - 1)
    IN  [k \in 1..Len(idx) |->
            [Question |-> strip(lines[idx[k] + 1]),
             Answer   |-> IF idx[k] + 1 < Len(lines)
                          THEN strip(lines[idx[k] + 2]) ELSE <<>>]]

parse(generated_content_) ==
    LET lines == split(generated_content_, NL)
        idx == range2(Len(lines))
    IN  [k \in 1..Len(idx) |->
            [Question |-> IF idx[k] < Len(lines)
                          THEN strip(lines[idx[k] + 1]) ELSE <<>>,
             Answer   |-> IF idx[k] + 1 < Len(lines)
                          THEN strip(lines[idx[k] + 2]) ELSE <<>>]]

-----------------------------------------------------------------------------
(* Prompt construction in generate_interview_questions *)

build(domain_, experience_level_, complexity_, num_questions_) ==
    <<"Generate ", num_questions_,
      " interview questions and answers for a ", domain_, " professional ",
      "with ", experience_level_, " years of experience. ",
      "The questions should be of ", complexity_, " complexity. ",
      "Each question should be followed by a corresponding answer.">>

\* response.text without the strip
response_text_raw(text) == text

\* response.text.strip()
response_text(text) == strip(text)

\* a handler that hands back what was received before the failure
except_return_partial == <<"a">>

\* the value returned by the except branch
except_return == <<>>

-----------------------------------------------------------------------------
(* Streamlit calls *)

st_message(u, kind, msg) == Append(u, [kind |-> kind, msg |-> msg])

st_error(u, msg) == st_message(u, "error", msg)

errors(u) == SelectSeq(u, LAMBDA m : m.kind = "error")

\* an except branch that swallows the exception
generate_except_silent(u) == u

\* the except branch of generate_interview_questions
generate_except(u) == st_error(u, "Error fetching questions")

-----------------------------------------------------------------------------
(* export_to_excel *)

ColumnNames == <<"Question", "Answer">>

\* pd.DataFrame(list of dicts): the columns are the keys of the dicts, so a
\* list without dicts has no columns
DataFrame(data) ==
    [columns |-> IF Len(data) = 0 THEN <<>> ELSE ColumnNames,
     rows    |-> [k \in 1..Len(data) |-> <<data[k].Question, data[k].Answer>>]]

\* to_excel(header=False)
to_excel_no_header(df) == df.rows

\* df.to_excel(writer, index=False): the sheet's rows, the header row first
\* when there are columns to name
to_excel(df) ==
    (IF Len(df.columns) = 0 THEN <<>> ELSE <<df.columns>>) \o df.rows

\* a buffer handed back although the writer failed half-way
export_to_excel_partial(data, ok) ==
    Some([sheet_name |-> "Interview Questions",
          rows |-> IF ok THEN to_excel(DataFrame(data)) ELSE <<>>])

\* the value export_to_excel returns
export_to_excel(data, ok) ==
    IF ok
    THEN Some([sheet_name |-> "Interview Questions",
               rows |-> to_excel(DataFrame(data))])
    ELSE None

-----------------------------------------------------------------------------
(* export_to_word *)

Title == "Interview Questions and Answers"

add_heading(doc, text, level) ==
    Append(doc, [style |-> IF level = 0 THEN "Title" ELSE "Heading",
                 level |-> level, text |-> text])

add_paragraph(doc, text) ==
    Append(doc, [style |-> "Normal", level |-> -1, text |-> text])

\* a loop body that leaves out the paragraph of an empty answer
RECURSIVE add_sections_skip_empty(_, _)
add_sections_skip_empty(doc, data) ==
    IF data = <<>> THEN doc
    ELSE LET qa == Head(data)
             h == add_heading(doc, qa.Question, 1)
         IN  add_sections_skip_empty(
                 IF qa.Answer = <<>> THEN h ELSE add_paragraph(h, qa.Answer),
                 Tail(data))

\* for qa in data: add_heading(question, level=1); add_paragraph(answer)
RECURSIVE add_sections(_, _)
add_sections(doc, data) ==
    IF data = <<>> THEN doc
    ELSE LET qa == Head(data)
         IN  add_sections(
                 add_paragraph(add_heading(doc, qa.Question, 1), qa.Answer),
                 Tail(data))

\* the value export_to_word returns
export_to_word(data, ok) ==
    IF ok
    THEN Some([body |-> add_sections(add_heading(<<>>, Title, 0), data)])
    ELSE None

-----------------------------------------------------------------------------
(* State *)

NoResponse == [status |-> "none", text |-> <<>>]

Blank ==
    /\ prompt = <<>>
    /\ response = NoResponse
    /\ excel_file = None
    /\ word_file = None
    /\ encoder = [excel |-> "none", word |-> "none"]
    /\ ui = <<>>
    /\ text_area = None
    /\ downloads = <<>>
    /\ hist = <<>>

Inputs ==
    /\ domain \in Domains
    /\ experience_level \in Years
    /\ complexity \in Complexities
    /\ num_questions \in Counts

\* the page as rendered before the button is pressed
Init ==
    /\ Inputs
    /\ pc = "button"
    /\ generated_content = <<>>
    /\ qa_pairs = <<>>
    /\ Blank

inputs == <<domain, experience_level, complexity, num_questions>>

-----------------------------------------------------------------------------
(* main(), from the button to the second download button *)

\* if st.button(...): st.info(...); enter generate_interview_questions
Click ==
    /\ pc = "button"
    /\ ui' = st_message(ui, "info",
                        "Generating interview questions. Please wait...")
    /\ pc' = "start_chat"
    /\ UNCHANGED <<inputs, prompt, response, generated_content, qa_pairs,
                   excel_file, word_file, encoder, text_area, downloads, hist>>

\* an exception inside the try block: the handler reports it, the function
\* returns, and main() goes on to its guard
Raise ==
    /\ response' = [status |-> "raised", text |-> <<>>]
    /\ ui' = generate_except(ui)
    /\ generated_content' = except_return
    /\ pc' = "guard"

\* genai.GenerativeModel(...) and model.start_chat()
StartChat ==
    /\ pc = "start_chat"
    /\ \/ /\ pc' = "prompt"
          /\ UNCHANGED <<response, ui, generated_content>>
       \/ Raise
    /\ UNCHANGED <<inputs, prompt, qa_pairs, excel_file, word_file, encoder,
                   text_area, downloads, hist>>

\* prompt = f"Generate {num_questions} ..."
BuildPrompt ==
    /\ pc = "prompt"
    /\ prompt' = build(domain, experience_level, complexity, num_questions)
    /\ hist' = Append(hist, "build")
    /\ pc' = "send"
    /\ UNCHANGED <<inputs, response, generated_content, qa_pairs, excel_file,
                   word_file, encoder, ui, text_area, downloads>>

\* send_message answers: return response.text.strip()
SendOk ==
    /\ pc = "send"
    /\ \E text \in Texts :
          /\ response' = [status |-> "ok", text |-> text]
          /\ generated_content' = response_text(text)
    /\ hist' = Append(hist, "call")
    /\ pc' = "guard"
    /\ UNCHANGED <<inputs, prompt, qa_pairs, excel_file, word_file, encoder,
                   ui, text_area, downloads>>

\* a handler that sends the prompt again
SendRaiseRetry ==
    /\ pc = "send"
    /\ response' = [status |-> "raised", text |-> <<>>]
    /\ ui' = generate_except(ui)
    /\ hist' = Append(hist, "call")
    /\ pc' = "send"
    /\ UNCHANGED <<inputs, prompt, generated_content, qa_pairs, excel_file,
                   word_file, encoder, text_area, downloads>>

\* send_message (or response.text) raises
SendRaise ==
    /\ pc = "send"
    /\ Raise
    /\ hist' = Append(hist, "call")
    /\ UNCHANGED <<inputs, prompt, qa_pairs, excel_file, word_file, encoder,
                   text_area, downloads>>

\* a guard that lets every content through
content_guard_always(content) == TRUE

\* if generated_content:
content_guard(content) == content # <<>>

\* the guard, and the display of the generated text
Guard ==
    /\ pc = "guard"
    /\ IF content_guard(generated_content)
       THEN /\ ui' = st_message(
                         st_message(ui, "success",
                                    "Questions generated successfully!"),
                         "write", "Generated Questions and Answers")
            /\ text_area' = Some(generated_content)
            /\ pc' = "parse"
       ELSE /\ pc' = "done"
            /\ UNCHANGED <<ui, text_area>>
    /\ UNCHANGED <<inputs, prompt, response, generated_content, qa_pairs,
                   excel_file, word_file, encoder, downloads, hist>>

\* qa_pairs = []; lines = ...; for i in range(0, len(lines), 2): ...
Parse ==
    /\ pc = "parse"
    /\ qa_pairs' = parse(generated_content)
    /\ hist' = Append(hist, "parse")
    /\ pc' = "excel"
    /\ UNCHANGED <<inputs, prompt, response, generated_content, excel_file,
                   word_file, encoder, ui, text_area, downloads>>

excel_download(file) ==
    [label |-> "Download as Excel", data |-> file,
     file_name |-> "Mazo_Interview_Questions.xlsx",
     mime |-> "application/vnd.openxmlformats-officedocument.spreadsheetml.sheet"]

word_download(file) ==
    [label |-> "Download as Word", data |-> file,
     file_name |-> "Mazo_Interview_Questions.docx",
     mime |-> "application/vnd.openxmlformats-officedocument.wordprocessingml.document"]

\* excel_file = export_to_excel(qa_pairs); if excel_file: download button
ExportExcel ==
    /\ pc = "excel"
    /\ \E ok \in BOOLEAN :
          LET file == export_to_excel(qa_pairs, ok)
          IN  /\ encoder' = [encoder EXCEPT
                                !.excel = IF ok THEN "ok" ELSE "raised"]
              /\ ui' = IF ok THEN ui
                       ELSE st_error(ui, "Error exporting to Excel")
              /\ excel_file' = file
              /\ downloads' = IF truthy(file)
                              THEN Append(downloads, excel_download(file))
                              ELSE downloads
    /\ hist' = Append(hist, "tabular")
    /\ pc' = "word"
    /\ UNCHANGED <<inputs, prompt, response, generated_content, qa_pairs,
                   word_file, text_area>>

\* word_file = export_to_word(qa_pairs); if word_file: download button
ExportWord ==
    /\ pc = "word"
    /\ \E ok \in BOOLEAN :
          LET file == export_to_word(qa_pairs, ok)
          IN  /\ encoder' = [encoder EXCEPT
                                !.word = IF ok THEN "ok" ELSE "raised"]
              /\ ui' = IF ok THEN ui
                       ELSE st_error(ui, "Error exporting to Word")
              /\ word_file' = file
              /\ downloads' = IF truthy(file)
                              THEN Append(downloads, word_download(file))
                              ELSE downloads
    /\ hist' = Append(hist, "document")
    /\ pc' = "done"
    /\ UNCHANGED <<inputs, prompt, response, generated_content, qa_pairs,
                   excel_file, text_area>>

Next ==
    \/ Click
    \/ StartChat
    \/ BuildPrompt
    \/ SendOk
    \/ SendRaise
    \/ Guard
    \/ Parse
    \/ ExportExcel
    \/ ExportWord

Spec == Init /\ [][Next]_vars

-----------------------------------------------------------------------------
(* The line-pairing loop applied to every text *)

InitParse ==
    /\ Inputs
    /\ pc = "parse"
    /\ generated_content \in Texts
    /\ qa_pairs = <<>>
    /\ Blank

NextParse == Parse

SpecParse == InitParse /\ [][NextParse]_vars

-----------------------------------------------------------------------------
(* The two renderers applied to every record sequence *)

InitRender ==
    /\ Inputs
    /\ pc = "excel"
    /\ generated_content = <<>>
    /\ qa_pairs \in RecordSeqs
    /\ Blank

NextRender == ExportExcel \/ ExportWord

SpecRender == InitRender /\ [][NextRender]_vars

-----------------------------------------------------------------------------
(* Properties *)

Ran(step) == \E i \in 1..Len(hist) : hist[i] = step

Count(seq, Test(_)) == Len(SelectSeq(seq, Test))

\* the text whose lines are L
RECURSIVE JoinLines(_)
JoinLines(L) ==
    IF Len(L) = 1 THEN L[1] ELSE L[1] \o <<NL>> \o JoinLines(Tail(L))

\* L is the text cut at every newline, blank lines kept
IsLinesOf(L, text) ==
    /\ Len(L) >= 1
    /\ JoinLines(L) = text
    /\ \A i \in 1..Len(L) : \A j \in 1..Len(L[i]) : L[i][j] # NL

\* t is s without its leading and trailing whitespace
IsTrimOf(t, s) ==
    \E a \in 0..Len(s) : \E b \in a..Len(s) :
        /\ t = SubSeq(s, a + 1, b)
        /\ \A k \in 1..a : s[k] \in Whitespace
        /\ \A k \in (b + 1)..Len(s) : s[k] \in Whitespace
        /\ t # <<>> => (t[1] \notin Whitespace /\ t[Len(t)] \notin Whitespace)

\* C1: for every raw text, the loop cuts the text at every newline into
\* lines L[0..n-1], blank lines kept, and yields exactly ceil(n/2) records in
\* order; record k has question = trim(L[2k]) and answer = trim(L[2k+1]) when
\* that line exists and the empty string otherwise, so every line lands in
\* exactly one field; no error is reported.
C1_ParsePairsLines ==
    Ran("parse") =>
        LET L == split(generated_content, NL)
            n == Len(L)
        IN  /\ IsLinesOf(L, generated_content)
            /\ Len(qa_pairs) = (n + 1) \div 2
            /\ \A k \in 0..(Len(qa_pairs) - 1) :
                  /\ IsTrimOf(qa_pairs[k + 1].Question, L[2 * k + 1])
                  /\ IF 2 * k + 1 < n
                     THEN IsTrimOf(qa_pairs[k + 1].Answer, L[2 * k + 2])
                     ELSE qa_pairs[k + 1].Answer = <<>>
            /\ errors(ui) = <<>>

\* an odd number of lines, one of them blank, one with surrounding whitespace
C1_Witness ==
    /\ Ran("parse")
    /\ generated_content = <<" ", "a", NL, NL>>
    /\ Len(qa_pairs) = 2
    /\ qa_pairs[1] = [Question |-> <<"a">>, Answer |-> <<>>]

\* C2: an empty generated content ends the run with zero records: no record
\* with empty question and empty answer is made, and nothing but a failed
\* service call is reported as an error.
C2_EmptyContentNoRecords ==
    (pc = "done" /\ generated_content = <<>>) =>
        /\ qa_pairs = <<>>
        /\ Len(errors(ui)) = IF response.status = "raised" THEN 1 ELSE 0

\* the service answered, and the answer was empty
C2_Witness ==
    /\ pc = "done"
    /\ response = [status |-> "ok", text |-> <<>>]
    /\ generated_content = <<>>
    /\ qa_pairs = <<>>

\* C3: when the service call fails, exactly one generation error is
\* reported, no generated text is shown or returned, the parser and the two
\* renderers do not run, and no artifact is delivered.
C3_GenerationFailureIsTerminal ==
    response.status = "raised" =>
        /\ Len(errors(ui)) = 1
        /\ errors(ui)[1].msg = "Error fetching questions"
        /\ generated_content = <<>>
        /\ text_area = None
        /\ ~Ran("parse") /\ ~Ran("tabular") /\ ~Ran("document")
        /\ qa_pairs = <<>>
        /\ excel_file = None /\ word_file = None
        /\ downloads = <<>>
        /\ pc \in {"guard", "done"}

\* the prompt was sent, the call raised, and the run is over
C3_Witness ==
    /\ pc = "done"
    /\ response.status = "raised"
    /\ hist = <<"build", "call">>

IsExcelDownload(d) == d.file_name = "Mazo_Interview_Questions.xlsx"

IsWordDownload(d) == d.file_name = "Mazo_Interview_Questions.docx"

IsExcelError(m) == m.kind = "error" /\ m.msg = "Error exporting to Excel"

IsWordError(m) == m.kind = "error" /\ m.msg = "Error exporting to Word"

\* C4: after a successful parse each format is all-or-nothing and
\* independent of the other: both renderers are invoked whatever the other
\* did; a format's artifact is delivered exactly when its renderer succeeded,
\* and it is then the whole rendering of the records; a failing renderer
\* reports its own error once and delivers nothing.
C4_ExportsIndependent ==
    (pc = "done" /\ Ran("parse")) =>
        /\ Ran("tabular") /\ Ran("document")
        /\ encoder.excel \in {"ok", "raised"}
        /\ encoder.word \in {"ok", "raised"}
        /\ Count(downloads, IsExcelDownload) =
               IF encoder.excel = "ok" THEN 1 ELSE 0
        /\ Count(downloads, IsWordDownload) =
               IF encoder.word = "ok" THEN 1 ELSE 0
        /\ Count(ui, IsExcelError) = IF encoder.excel = "ok" THEN 0 ELSE 1
        /\ Count(ui, IsWordError) = IF encoder.word = "ok" THEN 0 ELSE 1
        /\ \A i \in 1..Len(downloads) :
              /\ IsExcelDownload(downloads[i]) =>
                    /\ downloads[i].data = excel_file
                    /\ Len(excel_file[1].rows) = Len(qa_pairs) + 1
              /\ IsWordDownload(downloads[i]) =>
                    /\ downloads[i].data = word_file
                    /\ Len(word_file[1].body) = 2 * Len(qa_pairs) + 1
        /\ encoder.excel = "raised" => excel_file = None
        /\ encoder.word = "raised" => word_file = None

\* the tabular renderer failed and the document was delivered all the same
C4_Witness ==
    /\ pc = "done"
    /\ Ran("parse")
    /\ encoder = [excel |-> "raised", word |-> "ok"]
    /\ Len(downloads) = 1
    /\ IsWordDownload(downloads[1])
    /\ Count(ui, IsExcelError) = 1

\* C5: for a non-empty record sequence the sheet is the header row
\* ("Question", "Answer") followed by one row per record in record order:
\* record count + 1 rows, row k holding exactly the question and the answer
\* of record k.
C5_TabularRows ==
    (Ran("tabular") /\ encoder.excel = "ok" /\ qa_pairs # <<>>) =>
        LET rows == excel_file[1].rows
        IN  /\ Len(rows) = Len(qa_pairs) + 1
            /\ rows[1] = <<"Question", "Answer">>
            /\ \A k \in 1..Len(qa_pairs) :
                  rows[k + 1] = <<qa_pairs[k].Question, qa_pairs[k].Answer>>

\* two equal records with an empty answer and an untrimmed question
C5_Witness ==
    /\ Ran("tabular")
    /\ encoder.excel = "ok"
    /\ Len(qa_pairs) = 2
    /\ qa_pairs[1] = qa_pairs[2]
    /\ qa_pairs[1] = [Question |-> <<" ", "b">>, Answer |-> <<>>]
    /\ Len(excel_file[1].rows) = 3

IsTitle(e) == e.style = "Title"

IsHeading(e) == e.style = "Heading"

IsParagraph(e) == e.style = "Normal"

\* C6: the document is one leading title followed, for each record in
\* order, by a heading carrying the question and right after it a paragraph
\* carrying the answer, an empty answer included: N headings and N
\* paragraphs for N records.
C6_DocumentSections ==
    (Ran("document") /\ encoder.word = "ok") =>
        LET body == word_file[1].body
            N == Len(qa_pairs)
        IN  /\ Len(body) = 2 * N + 1
            /\ body[1] = [style |-> "Title", level |-> 0, text |-> Title]
            /\ Count(body, IsTitle) = 1
            /\ Count(body, IsHeading) = N
            /\ Count(body, IsParagraph) = N
            /\ \A k \in 1..N :
                  /\ body[2 * k] = [style |-> "Heading", level |-> 1,
                                    text |-> qa_pairs[k].Question]
                  /\ body[2 * k + 1] = [style |-> "Normal", level |-> -1,
                                        text |-> qa_pairs[k].Answer]

\* a record with an empty answer, followed by another record
C6_Witness ==
    /\ Ran("document")
    /\ encoder.word = "ok"
    /\ Len(qa_pairs) = 2
    /\ qa_pairs[1].Answer = <<>>
    /\ qa_pairs[2].Answer # <<>>
    /\ Len(word_file[1].body) = 5

\* C7: on an empty record sequence both renderers return an artifact: the
\* sheet holds the header row ("Question", "Answer") and no data row, the
\* document holds the title only.
C7_EmptySequenceRenders ==
    qa_pairs = <<>> =>
        /\ (Ran("tabular") /\ encoder.excel = "ok") =>
              /\ truthy(excel_file)
              /\ excel_file[1].rows = <<ColumnNames>>
        /\ (Ran("document") /\ encoder.word = "ok") =>
              /\ truthy(word_file)
              /\ Len(word_file[1].body) = 1
              /\ IsTitle(word_file[1].body[1])

Order == <<"build", "call", "parse", "tabular", "document">>

\* C8: in a run the service is called at most once, and the steps happen
\* only in the order build prompt, service call, parse, tabular render,
\* document render, none before its predecessor and none twice.
C8_StepOrder ==
    /\ Len(hist) <= Len(Order)
    /\ \A i \in 1..Len(hist) : hist[i] = Order[i]

\* all five steps were taken
C8_Witness == pc = "done" /\ hist = Order

\* C9: a run whose service call succeeds with empty content ends with no
\* error reported, and a run in which the service call or a renderer fails
\* ends with an error reported, so the two never look alike.
C9_EmptyDistinctFromFailure ==
    pc = "done" =>
        /\ (response.status = "ok" /\ generated_content = <<>>) =>
              /\ errors(ui) = <<>>
              /\ qa_pairs = <<>>
              /\ downloads = <<>>
        /\ (\/ response.status = "raised"
            \/ encoder.excel = "raised"
            \/ encoder.word = "raised") => errors(ui) # <<>>

\* the service answered with whitespace only
C9_Witness ==
    /\ pc = "done"
    /\ response.status = "ok"
    /\ response.text = <<" ", NL>>
    /\ generated_content = <<>>
    /\ errors(ui) = <<>>

\* C10: whenever the parser has run, the record sequence is non-empty, the
\* first record's question is non-empty and the last line of the text (the
\* last record's answer, or its question when the line count is odd) is
\* non-empty; a renderer is never about to run on an empty sequence.
C10_NonEmptyWhenParsed ==
    /\ Ran("parse") =>
          LET L == split(generated_content, NL)
              last == qa_pairs[Len(qa_pairs)]
          IN  /\ qa_pairs # <<>>
              /\ qa_pairs[1].Question # <<>>
              /\ L[Len(L)] # <<>>
              /\ IF Len(L) % 2 = 1
                 THEN last.Question # <<>>
                 ELSE last.Answer # <<>>
    /\ pc \in {"excel", "word"} => qa_pairs # <<>>

\* three lines, the middle one blank, rendered by both renderers
C10_Witness ==
    /\ pc = "done"
    /\ Ran("document")
    /\ response.text = <<"a", NL, NL, "b">>
    /\ Len(qa_pairs) = 2
    /\ qa_pairs[2] = [Question |-> <<"b">>, Answer |-> <<>>]

====
